---------------------------- MODULE Spec2Model ----------------------------
(***************************************************************************)
(* A model of the two-variable linear-programming solver of src/App.tsx.   *)
(*                                                                         *)
(* The React component keeps three pieces of state (objective,             *)
(* constraints, solution) and edits them from its event handlers; solve    *)
(* enumerates candidate vertices (findVertices), filters them with         *)
(* isValidPoint and scans them for the best objective value.               *)
(*                                                                         *)
(* JavaScript numbers are modelled as exact rationals n/d extended with    *)
(* the three non-finite values of IEEE arithmetic: d > 0 is the finite     *)
(* number n/d in lowest terms, <<1,0>> is Infinity, <<-1,0>> is -Infinity  *)
(* and <<0,0>> is NaN.  The coefficient sets below are chosen so that      *)
(* every quotient the solver forms has a power of two as denominator, for  *)
(* which IEEE double arithmetic is exact.  Negative zero is not modelled:  *)
(* it compares, prints and adds as zero everywhere the solver uses it.     *)
(*                                                                         *)
(* The fields of the objective and of a constraint range over numbers, as  *)
(* in the data model of the specification (section 3).  The NaN that       *)
(* parseFloat gives the form handlers for an emptied input is not among    *)
(* the inputs; non-finite values can only arise from a division.           *)
(***************************************************************************)
EXTENDS Integers, Sequences, FiniteSets, TLC

(***************************************************************************)
(* Bounds of the model.                                                    *)
(***************************************************************************)
\* longest constraint sequence the initial states of SpecInputs draw
MaxConstraints == 2
\* number of form edits a behaviour of Spec performs
MaxEdits == 3

\* values a coefficient field of a constraint can be set to
Coefs == {-1, 0, 1}
\* values the right-hand side of a constraint can be set to
Values == {-5, 10}
\* values a coefficient of the objective can be set to
ObjCoefs == {-1, 0, 1}
\* the <option> values of the relation <select>
Signs == {"<=", ">=", "="}
\* the <option> values of the direction <select>
Types == {"max", "min"}

\* null: an absent point, an absent solution (a present one is <<s>>)
NULL == <<>>

(***************************************************************************)
(* JavaScript numbers.                                                     *)
(***************************************************************************)
Abs(k) == IF k < 0 THEN -k ELSE k

Sign(k) == IF k > 0 THEN 1 ELSE IF k < 0 THEN -1 ELSE 0

RECURSIVE GCD(_, _)
GCD(m, k) == IF k = 0 THEN m ELSE GCD(k, m % k)

\* the number n/d in canonical form; a zero denominator gives Infinity,
\* -Infinity or NaN by the sign of the numerator
Norm(n, d) ==
    IF d = 0 THEN [n |-> Sign(n), d |-> 0]
    ELSE LET g == GCD(Abs(n), Abs(d))
             s == Sign(d)
         IN  [n |-> (s * n) \div g, d |-> (s * d) \div g]

Num(k) == [n |-> k, d |-> 1]

NaN == [n |-> 0, d |-> 0]

Infinity == [n |-> 1, d |-> 0]

IsNaN(x) == x.d = 0 /\ x.n = 0

Neg(x) == [n |-> -x.n, d |-> x.d]

\* x * y
Mul(x, y) ==
    IF x.d = 0 \/ y.d = 0 THEN [n |-> Sign(x.n) * Sign(y.n), d |-> 0]
    ELSE Norm(x.n * y.n, x.d * y.d)

\* x + y
Add(x, y) ==
    IF IsNaN(x) \/ IsNaN(y) THEN NaN
    ELSE IF x.d = 0 /\ y.d = 0 THEN (IF x.n = y.n THEN x ELSE NaN)
    ELSE IF x.d = 0 THEN x
    ELSE IF y.d = 0 THEN y
    ELSE Norm(x.n * y.d + y.n * x.d, x.d * y.d)

\* x / y
Div(x, y) ==
    IF IsNaN(x) \/ IsNaN(y) THEN NaN
    ELSE IF x.d = 0 /\ y.d = 0 THEN NaN
    ELSE IF x.d = 0 THEN [n |-> x.n * (IF y.n < 0 THEN -1 ELSE 1), d |-> 0]
    ELSE IF y.d = 0 THEN Num(0)
    ELSE Norm(x.n * y.d, x.d * y.n)

\* x < y
Lt(x, y) ==
    /\ ~IsNaN(x)
    /\ ~IsNaN(y)
    /\ IF x.d = 0 /\ y.d = 0 THEN x.n < y.n
       ELSE IF x.d = 0 THEN x.n < 0
       ELSE IF y.d = 0 THEN y.n > 0
       ELSE x.n * y.d < y.n * x.d

\* x <= y
Le(x, y) == ~IsNaN(x) /\ ~IsNaN(y) /\ ~Lt(y, x)

\* x >= y
Ge(x, y) == Le(y, x)

\* x.toFixed(2): the decimal with two fraction digits nearest to |x| (a tie
\* goes up), after the sign of x; a non-finite x prints as its name
toFixed2(x) ==
    IF x.d = 0
    THEN (IF x.n > 0 THEN "Infinity" ELSE IF x.n < 0 THEN "-Infinity" ELSE "NaN")
    ELSE LET h == (2 * 100 * Abs(x.n) + x.d) \div (2 * x.d)
             f == h % 100
         IN  (IF x.n < 0 THEN "-" ELSE "") \o ToString(h \div 100) \o "."
                \o (IF f < 10 THEN "0" ELSE "") \o ToString(f)

(***************************************************************************)
(* Data: interface Constraint, interface Solution, the objective.          *)
(***************************************************************************)
Constraint == [a : Coefs, b : Coefs, sign : Signs, value : Values]

Objective == [a : ObjCoefs, b : ObjCoefs, type : Types]

\* the constraint addConstraint appends and the component starts with
DefaultConstraint == [a |-> 1, b |-> 1, sign |-> "<=", value |-> 10]

\* useState({ a: 1, b: 1, type: 'max' })
DefaultObjective == [a |-> 1, b |-> 1, type |-> "max"]

Origin == <<Num(0), Num(0)>>

\* { point: null, value: 0, message: 'No solution exists' }
NoSolution == [point |-> NULL, value |-> Num(0), message |-> "No solution exists"]

(***************************************************************************)
(* The solver's pure functions, over a constraint sequence cs.             *)
(***************************************************************************)
\* isValidPoint with `some` where the code has `every`
isValidPointSome(point, cs) ==
    IF point = NULL \/ (\E k \in 1..Len(point) : Lt(point[k], Num(0))) THEN FALSE
    ELSE \E i \in 1..Len(cs) :
            LET c == cs[i]
                value == Add(Mul(Num(c.a), point[1]), Mul(Num(c.b), point[2]))
            IN  IF c.sign = "<=" THEN Le(value, Num(c.value))
                ELSE Ge(value, Num(c.value))

\* isValidPoint(point)
isValidPoint(point, cs) ==
    IF point = NULL \/ (\E k \in 1..Len(point) : Lt(point[k], Num(0))) THEN FALSE
    ELSE \A i \in 1..Len(cs) :
            LET c == cs[i]
                value == Add(Mul(Num(c.a), point[1]), Mul(Num(c.b), point[2]))
            IN  IF c.sign = "<=" THEN Le(value, Num(c.value))
                ELSE Ge(value, Num(c.value))

\* findAxisIntersection(c, axis)
findAxisIntersection(c, axis) ==
    IF axis = "x"
    THEN IF c.b = 0 THEN NULL
         ELSE LET y == Div(Num(c.value), Num(c.b)) IN <<Num(0), y>>
    ELSE IF c.a = 0 THEN NULL
         ELSE LET x == Div(Num(c.value), Num(c.a)) IN <<x, Num(0)>>

\* findIntersection without its `det === 0` return
findIntersectionNoDetCheck(c1, c2) ==
    LET det == c1.a * c2.b - c2.a * c1.b
        x == Div(Num(c1.value * c2.b - c2.value * c1.b), Num(det))
        y == Div(Num(c1.a * c2.value - c2.a * c1.value), Num(det))
    IN  <<x, y>>

\* findIntersection(c1, c2)
findIntersection(c1, c2) ==
    LET det == c1.a * c2.b - c2.a * c1.b
    IN  IF det = 0 THEN NULL
        ELSE LET x == Div(Num(c1.value * c2.b - c2.value * c1.b), Num(det))
                 y == Div(Num(c1.a * c2.value - c2.a * c1.value), Num(det))
             IN  <<x, y>>

\* `if (p && isValidPoint(p)) points.push(p)`: what one candidate adds
pushIfValid(p, cs) == IF p # NULL /\ isValidPoint(p, cs) THEN <<p>> ELSE <<>>

\* the inner loop of findVertices for row i: j = from, from + 1, ...
RECURSIVE pairLoop(_, _, _)
pairLoop(cs, i, from) ==
    IF from > Len(cs) THEN <<>>
    ELSE pushIfValid(findIntersection(cs[i], cs[from]), cs) \o pairLoop(cs, i, from + 1)

\* the loop body pushing only its first axis candidate
axisPushesOnlyFirst(cs, i) ==
    pushIfValid(findAxisIntersection(cs[i], "x"), cs)

\* the loop body pushing yIntersect before xIntersect
axisPushesSwapped(cs, i) ==
    LET xIntersect == findAxisIntersection(cs[i], "x")
        yIntersect == findAxisIntersection(cs[i], "y")
    IN  pushIfValid(yIntersect, cs) \o pushIfValid(xIntersect, cs)

\* the two axis candidates of row i, in the order the loop body pushes them
axisPushes(cs, i) ==
    LET xIntersect == findAxisIntersection(cs[i], "x")
        yIntersect == findAxisIntersection(cs[i], "y")
    IN  pushIfValid(xIntersect, cs) \o pushIfValid(yIntersect, cs)

\* the outer loop of findVertices: i = from, from + 1, ...
RECURSIVE outerLoop(_, _)
outerLoop(cs, from) ==
    IF from > Len(cs) THEN <<>>
    ELSE pairLoop(cs, from, from + 1) \o axisPushes(cs, from) \o outerLoop(cs, from + 1)

\* the points array before the final filter
pushedPoints(cs) == <<Origin>> \o outerLoop(cs, 1)

\* points.filter(point => isValidPoint(point))
filterValid(points, cs) == SelectSeq(points, LAMBDA p : isValidPoint(p, cs))

\* findVertices returning points without the final filter
findVerticesUnfiltered(cs) == pushedPoints(cs)

\* findVertices()
findVertices(cs) == filterValid(pushedPoints(cs), cs)

\* bestValue and bestPoint before the scan
initialBest(obj) ==
    [value |-> IF obj.type = "max" THEN Neg(Infinity) ELSE Infinity, point |-> NULL]

\* the callback with `value > bestValue` in the 'min' branch too
scanStepMinAsMax(obj, best, point) ==
    LET value == Add(Mul(Num(obj.a), point[1]), Mul(Num(obj.b), point[2]))
    IN  IF obj.type = "max" /\ Lt(best.value, value) THEN [value |-> value, point |-> point]
        ELSE IF obj.type = "min" /\ Lt(best.value, value) THEN [value |-> value, point |-> point]
        ELSE best

\* the callback with `>=` and `<=` where the code has `>` and `<`
scanStepReplacesTies(obj, best, point) ==
    LET value == Add(Mul(Num(obj.a), point[1]), Mul(Num(obj.b), point[2]))
    IN  IF obj.type = "max" /\ Le(best.value, value) THEN [value |-> value, point |-> point]
        ELSE IF obj.type = "min" /\ Le(value, best.value) THEN [value |-> value, point |-> point]
        ELSE best

\* one call of the forEach callback: the running best after `point`
scanStep(obj, best, point) ==
    LET value == Add(Mul(Num(obj.a), point[1]), Mul(Num(obj.b), point[2]))
    IN  IF obj.type = "max" /\ Lt(best.value, value) THEN [value |-> value, point |-> point]
        ELSE IF obj.type = "min" /\ Lt(value, best.value) THEN [value |-> value, point |-> point]
        ELSE best

\* vertices.forEach(...) from index k on, starting from the running best
RECURSIVE forEachFrom(_, _, _, _)
forEachFrom(obj, vs, k, best) ==
    IF k > Len(vs) THEN best
    ELSE forEachFrom(obj, vs, k + 1, scanStep(obj, best, vs[k]))

\* bestPoint?.[k].toFixed(2) inside the template string
coordText(point, k) == IF point = NULL THEN "undefined" ELSE toFixed2(point[k])

\* the object of the second setSolution call
optimalSolution(best) ==
    [point |-> best.point,
     value |-> best.value,
     message |-> "Optimal solution found at (" \o coordText(best.point, 1)
                   \o ", " \o coordText(best.point, 2)
                   \o ") with value " \o toFixed2(best.value)]

\* solve without its `!vertices.length` return
solveResultNoEmptyCheck(obj, vs) ==
    optimalSolution(forEachFrom(obj, vs, 1, initialBest(obj)))

\* the object solve passes to setSolution, given the vertices it found
solveResult(obj, vs) ==
    IF Len(vs) = 0 THEN NoSolution
    ELSE optimalSolution(forEachFrom(obj, vs, 1, initialBest(obj)))

(***************************************************************************)
(* State.  objective, constraints and solution are the component's three   *)
(* useState cells; vertices is the array the last solve call scanned;      *)
(* lastOp names the handler that ran last and edits counts the edits.      *)
(***************************************************************************)
VARIABLES objective, constraints, solution, vertices, lastOp, edits

vars == <<objective, constraints, solution, vertices, lastOp, edits>>

\* the component as first rendered
Init ==
    /\ objective = DefaultObjective
    /\ constraints = <<DefaultConstraint>>
    /\ solution = NULL
    /\ vertices = <<>>
    /\ lastOp = "init"
    /\ edits = 0

\* a form in which the user has entered any objective and constraints
InitInputs ==
    /\ objective \in Objective
    /\ constraints \in UNION {[1..n -> Constraint] : n \in 0..MaxConstraints}
    /\ solution = NULL
    /\ vertices = <<>>
    /\ lastOp = "init"
    /\ edits = 0

\* the fields of a constraint and the values the form gives each
FieldValues(field) ==
    CASE field = "a" -> Coefs
      [] field = "b" -> Coefs
      [] field = "sign" -> Signs
      [] field = "value" -> Values

\* the fields of the objective and the values the form gives each
ObjectiveValues(field) ==
    CASE field = "a" -> ObjCoefs
      [] field = "b" -> ObjCoefs
      [] field = "type" -> Types

\* constraints.filter((_, i) => i !== index), index counted from 1
removeAt(cs, index) ==
    [k \in 1..(Len(cs) - 1) |-> IF k < index THEN cs[k] ELSE cs[k + 1]]

\* onChange of the objective's inputs: setObjective({ ...objective, [field]: value })
SetObjective ==
    /\ edits < MaxEdits
    /\ \E field \in {"a", "b", "type"} : \E value \in ObjectiveValues(field) :
          objective' = [objective EXCEPT ![field] = value]
    /\ lastOp' = "setObjective"
    /\ edits' = edits + 1
    /\ UNCHANGED <<constraints, solution, vertices>>

AddConstraint ==
    /\ edits < MaxEdits
    /\ constraints' = Append(constraints, DefaultConstraint)
    /\ lastOp' = "addConstraint"
    /\ edits' = edits + 1
    /\ UNCHANGED <<objective, solution, vertices>>

RemoveConstraint ==
    /\ edits < MaxEdits
    /\ \E index \in 1..Len(constraints) :
          constraints' = removeAt(constraints, index)
    /\ lastOp' = "removeConstraint"
    /\ edits' = edits + 1
    /\ UNCHANGED <<objective, solution, vertices>>

UpdateConstraint ==
    /\ edits < MaxEdits
    /\ \E index \in 1..Len(constraints) :
          \E field \in {"a", "b", "sign", "value"} : \E value \in FieldValues(field) :
             constraints' = [constraints EXCEPT ![index][field] = value]
    /\ lastOp' = "updateConstraint"
    /\ edits' = edits + 1
    /\ UNCHANGED <<objective, solution, vertices>>

\* solve with bestValue kept from the previous call instead of reset
SolveCarriesBest ==
    /\ vertices' = findVertices(constraints)
    /\ solution' =
          LET start == IF solution = NULL THEN initialBest(objective)
                       ELSE [value |-> solution[1].value, point |-> NULL]
          IN  IF Len(vertices') = 0 THEN <<NoSolution>>
              ELSE <<optimalSolution(forEachFrom(objective, vertices', 1, start))>>
    /\ lastOp' = "solve"
    /\ UNCHANGED <<objective, constraints, edits>>

\* onClick of the Resolver button
Solve ==
    /\ vertices' = findVertices(constraints)
    /\ solution' = <<solveResult(objective, vertices')>>
    /\ lastOp' = "solve"
    /\ UNCHANGED <<objective, constraints, edits>>

Next ==
    \/ SetObjective
    \/ AddConstraint
    \/ RemoveConstraint
    \/ UpdateConstraint
    \/ Solve

\* the component from its first render, through at most MaxEdits edits
Spec == Init /\ [][Next]_vars

NextInputs == Solve

\* solve applied to every objective and constraint sequence of the bounds
SpecInputs == InitInputs /\ [][NextInputs]_vars

(***************************************************************************)
(* Vocabulary of the properties.  These definitions restate the            *)
(* specification's terms in integer arithmetic, independently of the       *)
(* operators above: a finite point p = <<x, y>> has x = p[1].n / p[1].d    *)
(* and y = p[2].n / p[2].d, and every comparison is cross-multiplied by    *)
(* the positive number Scale(p).                                           *)
(***************************************************************************)
Solved == lastOp = "solve"

IsFinite(x) == x.d > 0

IsPoint(p) == Len(p) = 2 /\ p[1].d > 0 /\ p[2].d > 0

Scale(p) == p[1].d * p[2].d

\* (a*x + b*y) * Scale(p)
Linear(a, b, p) == a * p[1].n * p[2].d + b * p[2].n * p[1].d

\* the constraint c holds at p: `<=` as written, any other relation as `>=`
Satisfies(c, p) ==
    IF c.sign = "<=" THEN Linear(c.a, c.b, p) <= c.value * Scale(p)
    ELSE Linear(c.a, c.b, p) >= c.value * Scale(p)

\* p lies in the feasible region of cs
Feasible(p, cs) ==
    /\ IsPoint(p)
    /\ p[1].n >= 0
    /\ p[2].n >= 0
    /\ \A i \in 1..Len(cs) : Satisfies(cs[i], p)

\* the objective is strictly larger at p than at q
ObjGreater(obj, p, q) ==
    Linear(obj.a, obj.b, p) * Scale(q) > Linear(obj.a, obj.b, q) * Scale(p)

\* p is strictly better than q in the direction of the objective
Better(obj, p, q) ==
    IF obj.type = "max" THEN ObjGreater(obj, p, q) ELSE ObjGreater(obj, q, p)

\* the number v is the objective's value at p
IsObjValue(obj, v, p) == v.d > 0 /\ v.n * Scale(p) = Linear(obj.a, obj.b, p) * v.d

\* the points (i/2, j/2) of the square [0, 20] x [0, 20], which holds every
\* vertex a bounded feasible region over Coefs and Values can have
SamplePoints == {<<Norm(i, 2), Norm(j, 2)>> : i, j \in 0..40}

\* a fixed set of points on both sides of every line a*x + b*y = value over
\* Coefs and Values, some with a negative coordinate
FixedPoints ==
    LET coords == {Norm(k, 2) : k \in {-2, 0, 5, 10, 15, 20, 21, 30}}
    IN  coords \X coords

RegionSample(cs) == {p \in SamplePoints : Feasible(p, cs)}

\* directions (dx, dy) >= 0, not both 0, among which a non-trivial recession
\* cone over Coefs has an extreme ray
Directions == {d \in (0..1) \X (0..1) : d # <<0, 0>>}

\* moving along d from a feasible point stays feasible
Recedes(d, cs) ==
    \A i \in 1..Len(cs) :
        IF cs[i].sign = "<=" THEN cs[i].a * d[1] + cs[i].b * d[2] <= 0
        ELSE cs[i].a * d[1] + cs[i].b * d[2] >= 0

Bounded(cs) == \A d \in Directions : ~Recedes(d, cs)

\* the objective improves without limit along some direction of recession
Improves(obj, d) ==
    IF obj.type = "max" THEN obj.a * d[1] + obj.b * d[2] > 0
    ELSE obj.a * d[1] + obj.b * d[2] < 0

NoFiniteOptimum(obj, cs) ==
    /\ RegionSample(cs) # {}
    /\ \E d \in Directions : Recedes(d, cs) /\ Improves(obj, d)

\* the candidates of the specification, feasible or not: the origin, the
\* pairwise intersections and the axis intersections
Candidates(cs) ==
    ({Origin}
       \cup {findIntersection(cs[i], cs[j]) : i, j \in 1..Len(cs)}
       \cup {findAxisIntersection(cs[i], axis) : i \in 1..Len(cs), axis \in {"x", "y"}})
    \ {NULL}

\* the point of constraint c on the x-axis, (value/a, 0), and on the y-axis
XAxisPoint(c) == IF c.a = 0 THEN NULL ELSE <<Div(Num(c.value), Num(c.a)), Num(0)>>

YAxisPoint(c) == IF c.b = 0 THEN NULL ELSE <<Num(0), Div(Num(c.value), Num(c.b))>>

Keep(p, cs) == IF p # NULL /\ Feasible(p, cs) THEN <<p>> ELSE <<>>

RECURSIVE PairsInOrder(_, _, _)
PairsInOrder(cs, i, j) ==
    IF j > Len(cs) THEN <<>>
    ELSE Keep(findIntersection(cs[i], cs[j]), cs) \o PairsInOrder(cs, i, j + 1)

\* the feasible candidates in the order: origin, then per constraint i its
\* intersections with each j > i, then its two axis points, the one on the
\* x-axis first iff xFirst
RECURSIVE RowsInOrder(_, _, _)
RowsInOrder(cs, i, xFirst) ==
    IF i > Len(cs) THEN <<>>
    ELSE PairsInOrder(cs, i, i + 1)
           \o (IF xFirst THEN Keep(XAxisPoint(cs[i]), cs) \o Keep(YAxisPoint(cs[i]), cs)
                ELSE Keep(YAxisPoint(cs[i]), cs) \o Keep(XAxisPoint(cs[i]), cs))
           \o RowsInOrder(cs, i + 1, xFirst)

InOrder(cs, xFirst) == Keep(Origin, cs) \o RowsInOrder(cs, 1, xFirst)

P(x, y) == <<Num(x), Num(y)>>

\* the scenarios of the specification
MaxXPlusY == [a |-> 1, b |-> 1, type |-> "max"]

MinXPlusY == [a |-> 1, b |-> 1, type |-> "min"]

XPlusYAtMost10 == [a |-> 1, b |-> 1, sign |-> "<=", value |-> 10]

XPlusYAtMostMinus5 == [a |-> 1, b |-> 1, sign |-> "<=", value |-> -5]

XPlusYAtLeast10 == [a |-> 1, b |-> 1, sign |-> ">=", value |-> 10]

Sol == solution[1]

Front(cs) == SubSeq(cs, 1, Len(cs) - 1)

(***************************************************************************)
(* The properties.                                                         *)
(***************************************************************************)

\* C1: every point findVertices returns to solve, the origin included, has
\* x >= 0 and y >= 0 and satisfies every constraint, `<=` as a*x + b*y <= value
\* and `>=` or `=` as a*x + b*y >= value.
C1_VerticesFeasible ==
    Solved => \A k \in 1..Len(vertices) : Feasible(vertices[k], constraints)

\* a solve over an `=` constraint whose final filter dropped the origin and
\* kept at least two points
C1_Witness ==
    /\ Solved
    /\ \E i \in 1..Len(constraints) : constraints[i].sign = "="
    /\ Len(vertices) >= 2
    /\ \A k \in 1..Len(vertices) : vertices[k] # Origin
    /\ Len(pushedPoints(constraints)) > Len(vertices)

C4_UnboundedReportsNoSolution ==
    /\ (Solved /\ NoFiniteOptimum(objective, constraints)) => Sol.point = NULL
    /\ (Solved /\ objective = MaxXPlusY /\ constraints \in {<<>>, <<XPlusYAtLeast10>>}) =>
          Sol = NoSolution

C6_SolveIdempotent ==
    [][lastOp' = "solve" =>
         /\ constraints' = constraints
         /\ objective' = objective
         /\ lastOp = "solve" => solution' = solution]_vars

\* a solve after some edit that found an optimum, from where solve can run again
C6_Witness ==
    /\ Solved
    /\ edits > 0
    /\ Sol.point # NULL
    /\ Sol.point # Origin

C8_FirstOptimumWins ==
    (Solved /\ Len(vertices) > 0) =>
        \E k \in 1..Len(vertices) :
           /\ vertices[k] = Sol.point
           /\ \A j \in 1..Len(vertices) : ~Better(objective, vertices[j], Sol.point)
           /\ \A j \in 1..(k - 1) : Better(objective, Sol.point, vertices[j])

\* two different returned points attain the optimum and the earlier one won
C8_Witness ==
    /\ Solved
    /\ \E j, k \in 1..Len(vertices) :
          /\ j < k
          /\ vertices[j] # vertices[k]
          /\ Sol.point = vertices[j]
          /\ ~Better(objective, vertices[j], vertices[k])
          /\ ~Better(objective, vertices[k], vertices[j])

C10_FeasibilityMonotonic ==
    [][(/\ Len(constraints') = Len(constraints) + 1
        /\ Front(constraints') = constraints) =>
          \A p \in FixedPoints :
             isValidPoint(p, constraints') => isValidPoint(p, constraints)]_vars

\* addConstraint has just run and the constraint it appended rejects a point
\* that was accepted before
C10_Witness ==
    /\ lastOp = "addConstraint"
    /\ Len(constraints) >= 2
    /\ \E p \in FixedPoints :
          isValidPoint(p, Front(constraints)) /\ ~isValidPoint(p, constraints)

=============================================================================
